---- MODULE Spec2Model ----
(***************************************************************************)
(* Model of the intrusive AVL tree of lib/rbtree.c (avl_node, avl_root,    *)
(* rotations, rebalance walk, link/insert, erase, first/next) and of the   *)
(* callers in lib/avl_test.c (avl_insert_key, print_inorder, main).        *)
(*                                                                         *)
(* A node is identified by the index of its record (nodes[i] in the test); *)
(* NULL is 0.  The tree operations are pure operators over a record        *)
(*   t = [root, parent, left, right, height]                               *)
(* that holds struct avl_root and the four fields of every struct          *)
(* avl_node; every statement of the C code is one step of a LET chain that *)
(* reads the record produced by the statement before it.                   *)
(***************************************************************************)
EXTENDS Integers, Sequences, FiniteSets, TLC

\* ---------------------------------------------------------------- bounds
\* records the general caller may link (nodes 1..MaxNodes)
MaxNodes == 9
\* avl_erase calls the general caller may make
MaxErase == 1
\* records the small general caller may link, and avl_erase calls it may make
SmallNodes == 6
SmallErase == 2
\* records the general caller may link when it may erase twice, and those erases
MidNodes == 7
MidErase == 2
\* records the insert-only caller may link
MaxInsOnly == 9
\* entries of to_delete[] the test driver may process
MaxDelete == 3
\* records the caller may link before it runs the cleanup loop
MaxDrain == 7
\* records the caller that inserts increasing keys may link
MaxAsc == 9

\* ------------------------------------------------------------- constants
NULL == 0
\* nkeys of main(): the number of records the test allocates
NKeys == 9
\* keys[] of main()
TestKeys == <<50, 20, 70, 10, 30, 60, 80, 25, 35>>

MaxOf(a, b) == IF a >= b THEN a ELSE b
PoolSize == MaxOf(MaxOf(MaxOf(MaxNodes, SmallNodes), MaxOf(MaxInsOnly, NKeys)), MaxOf(MaxOf(MaxDrain, MaxAsc), MidNodes))
\* the records that exist (struct test_node), by index
Pool == 1..PoolSize
\* a loop that has run this many iterations is treated as not returning:
\* on an acyclic structure no walk of the code is longer than 2 * PoolSize
LoopCap == 2 * PoolSize + 2

\* int8_t arithmetic (avl_height is an int8_t)
Int8(x) == ((x + 128) % 256) - 128

VARIABLES
    root,        \* struct avl_root . avl_node
    avl_parent,  \* struct avl_node . avl_parent, per record
    avl_left,    \* struct avl_node . avl_left
    avl_right,   \* struct avl_node . avl_right
    avl_height,  \* struct avl_node . avl_height
    key,         \* struct test_node . key
    linked,      \* records for which avl_link_node + avl_insert_color completed
    erased,      \* records for which avl_erase completed
    deleted,     \* the entries of to_delete[] processed so far by main()
    last,        \* the last completed call: kind, argument, shape of the argument
    walk,        \* the rebalance walk of the last call: iterations, and whether it returned
    drain        \* the cleanup loop of main(): whether it runs, its n, the records erased by it

vars == <<root, avl_parent, avl_left, avl_right, avl_height, key, linked,
          erased, deleted, last, walk, drain>>

\* the tree as one value
T == [root |-> root, parent |-> avl_parent, left |-> avl_left,
      right |-> avl_right, height |-> avl_height]

\* --------------------------------------------------------- rbtree.c code
avl_init_node(t, node) ==
    [t EXCEPT !.parent[node] = NULL, !.left[node] = NULL,
              !.right[node] = NULL, !.height[node] = 1]

avl_height_of(t, n) == IF n # NULL THEN t.height[n] ELSE 0

avl_update_height(t, n) ==
    LET hl == avl_height_of(t, t.left[n])
        hr == avl_height_of(t, t.right[n])
    IN  [t EXCEPT !.height[n] = Int8(MaxOf(hl, hr) + 1)]

\* avl_rotate_right without `x->avl_parent = y->avl_parent': the promoted
\* record keeps y as its parent
avl_rotate_right_keeps_parent(t, y) ==
    LET x  == t.left[y]
        t1 == [t EXCEPT !.left[y] = t.right[x]]
        t2 == IF t1.right[x] # NULL
              THEN [t1 EXCEPT !.parent[t1.right[x]] = y] ELSE t1
        t4 == IF t2.parent[y] = NULL
              THEN [t2 EXCEPT !.root = x]
              ELSE IF y = t2.left[t2.parent[y]]
              THEN [t2 EXCEPT !.left[t2.parent[y]] = x]
              ELSE [t2 EXCEPT !.right[t2.parent[y]] = x]
        t5 == [t4 EXCEPT !.right[x] = y]
        t6 == [t5 EXCEPT !.parent[y] = x]
    IN  avl_update_height(avl_update_height(t6, y), x)

avl_rotate_right(t, y) ==
    LET x  == t.left[y]
        t1 == [t EXCEPT !.left[y] = t.right[x]]
        t2 == IF t1.right[x] # NULL
              THEN [t1 EXCEPT !.parent[t1.right[x]] = y] ELSE t1
        t3 == [t2 EXCEPT !.parent[x] = t2.parent[y]]
        t4 == IF t3.parent[y] = NULL
              THEN [t3 EXCEPT !.root = x]
              ELSE IF y = t3.left[t3.parent[y]]
              THEN [t3 EXCEPT !.left[t3.parent[y]] = x]
              ELSE [t3 EXCEPT !.right[t3.parent[y]] = x]
        t5 == [t4 EXCEPT !.right[x] = y]
        t6 == [t5 EXCEPT !.parent[y] = x]
    IN  avl_update_height(avl_update_height(t6, y), x)

\* avl_rotate_left that hands the promoted record the left subtree of x
\* (`x->avl_right = x->avl_left') instead of taking over y->avl_left
avl_rotate_left_wrong_subtree(t, x) ==
    LET y  == t.right[x]
        t1 == [t EXCEPT !.right[x] = t.left[x]]
        t2 == IF t1.left[y] # NULL
              THEN [t1 EXCEPT !.parent[t1.left[y]] = x] ELSE t1
        t3 == [t2 EXCEPT !.parent[y] = t2.parent[x]]
        t4 == IF t3.parent[x] = NULL
              THEN [t3 EXCEPT !.root = y]
              ELSE IF x = t3.left[t3.parent[x]]
              THEN [t3 EXCEPT !.left[t3.parent[x]] = y]
              ELSE [t3 EXCEPT !.right[t3.parent[x]] = y]
        t5 == [t4 EXCEPT !.left[y] = x]
        t6 == [t5 EXCEPT !.parent[x] = y]
    IN  avl_update_height(avl_update_height(t6, x), y)

\* avl_rotate_left without `root->avl_node = y': a rotation at the root
\* record leaves the Root at x
avl_rotate_left_keeps_root(t, x) ==
    LET y  == t.right[x]
        t1 == [t EXCEPT !.right[x] = t.left[y]]
        t2 == IF t1.left[y] # NULL
              THEN [t1 EXCEPT !.parent[t1.left[y]] = x] ELSE t1
        t3 == [t2 EXCEPT !.parent[y] = t2.parent[x]]
        t4 == IF t3.parent[x] = NULL
              THEN t3
              ELSE IF x = t3.left[t3.parent[x]]
              THEN [t3 EXCEPT !.left[t3.parent[x]] = y]
              ELSE [t3 EXCEPT !.right[t3.parent[x]] = y]
        t5 == [t4 EXCEPT !.left[y] = x]
        t6 == [t5 EXCEPT !.parent[x] = y]
    IN  avl_update_height(avl_update_height(t6, x), y)

avl_rotate_left(t, x) ==
    LET y  == t.right[x]
        t1 == [t EXCEPT !.right[x] = t.left[y]]
        t2 == IF t1.left[y] # NULL
              THEN [t1 EXCEPT !.parent[t1.left[y]] = x] ELSE t1
        t3 == [t2 EXCEPT !.parent[y] = t2.parent[x]]
        t4 == IF t3.parent[x] = NULL
              THEN [t3 EXCEPT !.root = y]
              ELSE IF x = t3.left[t3.parent[x]]
              THEN [t3 EXCEPT !.left[t3.parent[x]] = y]
              ELSE [t3 EXCEPT !.right[t3.parent[x]] = y]
        t5 == [t4 EXCEPT !.left[y] = x]
        t6 == [t5 EXCEPT !.parent[x] = y]
    IN  avl_update_height(avl_update_height(t6, x), y)

\* the loop body of avl_rebalance without its rotations: heights only
avl_rebalance_body_no_rotation(t, n) == avl_update_height(t, n)

\* one iteration of the while loop of avl_rebalance, without `n = n->avl_parent'
avl_rebalance_body(t, n) ==
    LET t1 == avl_update_height(t, n)
        balance == Int8(avl_height_of(t1, t1.left[n]) - avl_height_of(t1, t1.right[n]))
    IN  IF balance > 1 THEN
            LET l  == t1.left[n]
                ta == IF avl_height_of(t1, t1.left[l]) < avl_height_of(t1, t1.right[l])
                      THEN avl_rotate_left(t1, l) ELSE t1
            IN  avl_rotate_right(ta, n)
        ELSE IF balance < -1 THEN
            LET r  == t1.right[n]
                ta == IF avl_height_of(t1, t1.right[r]) < avl_height_of(t1, t1.left[r])
                      THEN avl_rotate_right(t1, r) ELSE t1
            IN  avl_rotate_left(ta, n)
        ELSE t1

\* the while loop of avl_rebalance; i counts the iterations done so far.
\* The result carries the tree, the iteration count and whether the loop exited.
RECURSIVE avl_rebalance_loop(_, _, _)
avl_rebalance_loop(t, n, i) ==
    IF n = NULL THEN [tree |-> t, steps |-> i, done |-> TRUE]
    ELSE IF i >= LoopCap THEN [tree |-> t, steps |-> i, done |-> FALSE]
    ELSE LET t2 == avl_rebalance_body(t, n)
         IN  avl_rebalance_loop(t2, t2.parent[n], i + 1)

avl_rebalance(t, n) == avl_rebalance_loop(t, n, 0)

\* avl_link_node with the sides exchanged (`if (left) parent->avl_right = node')
avl_link_node_swapped(t, node, parent, left) ==
    LET t1 == avl_init_node(t, node)
        t2 == [t1 EXCEPT !.parent[node] = parent]
    IN  IF parent = NULL THEN [t2 EXCEPT !.root = node]
        ELSE IF left THEN [t2 EXCEPT !.right[parent] = node]
        ELSE [t2 EXCEPT !.left[parent] = node]

avl_link_node(t, node, parent, left) ==
    LET t1 == avl_init_node(t, node)
        t2 == [t1 EXCEPT !.parent[node] = parent]
    IN  IF parent = NULL THEN [t2 EXCEPT !.root = node]
        ELSE IF left THEN [t2 EXCEPT !.left[parent] = node]
        ELSE [t2 EXCEPT !.right[parent] = node]

avl_insert_color(t, node) == avl_rebalance(t, t.parent[node])

\* the while loop of avl_subtree_min; node is NULL when n is NULL, and
\* done = FALSE stands for a descent that does not return
RECURSIVE avl_subtree_min_loop(_, _, _)
avl_subtree_min_loop(t, n, i) ==
    IF n # NULL /\ t.left[n] # NULL
    THEN IF i >= LoopCap THEN [node |-> n, done |-> FALSE]
         ELSE avl_subtree_min_loop(t, t.left[n], i + 1)
    ELSE [node |-> n, done |-> TRUE]

avl_subtree_min(t, n) == avl_subtree_min_loop(t, n, 0)

\* avl_erase without `child->avl_parent = parent': the spliced-in child keeps
\* the erased record as its parent
avl_erase_splice_stale_parent(t, node0) ==
    LET parent == t.parent[node0]
        two    == t.left[node0] # NULL /\ t.right[node0] # NULL
        node   == IF two THEN avl_subtree_min(t, t.right[node0]).node ELSE node0
        child  == IF t.left[node] # NULL THEN t.left[node] ELSE t.right[node]
    IN  IF parent = NULL THEN [t EXCEPT !.root = child]
        ELSE IF node = t.left[parent] THEN [t EXCEPT !.left[parent] = child]
        ELSE [t EXCEPT !.right[parent] = child]

\* avl_erase: the tree after the splice, the node the rebalance walk starts
\* at, and the walk
avl_erase_splice(t, node0) ==
    LET parent == t.parent[node0]
        two    == t.left[node0] # NULL /\ t.right[node0] # NULL
        node   == IF two THEN avl_subtree_min(t, t.right[node0]).node ELSE node0
        child  == IF t.left[node] # NULL THEN t.left[node] ELSE t.right[node]
        t1 == IF child # NULL THEN [t EXCEPT !.parent[child] = parent] ELSE t
    IN  IF parent = NULL THEN [t1 EXCEPT !.root = child]
        ELSE IF node = t1.left[parent] THEN [t1 EXCEPT !.left[parent] = child]
        ELSE [t1 EXCEPT !.right[parent] = child]

\* the node avl_erase hands to avl_rebalance: the local `parent'
avl_erase_start(t, node) == t.parent[node]

avl_erase(t, node) == avl_rebalance(avl_erase_splice(t, node), avl_erase_start(t, node))

avl_first(t) == avl_subtree_min(t, t.root)

\* the while loop of avl_next (the ascent while n is a right child)
RECURSIVE avl_next_loop(_, _, _)
avl_next_loop(t, n, i) ==
    IF t.parent[n] # NULL /\ n = t.right[t.parent[n]]
    THEN IF i >= LoopCap THEN [node |-> n, done |-> FALSE]
         ELSE avl_next_loop(t, t.parent[n], i + 1)
    ELSE [node |-> t.parent[n], done |-> TRUE]

\* avl_next that returns the right child itself instead of the leftmost
\* record below it
avl_next_no_descent(t, node) ==
    IF t.right[node] # NULL THEN [node |-> t.right[node], done |-> TRUE]
    ELSE avl_next_loop(t, node, 0)

avl_next(t, node) ==
    IF t.right[node] # NULL THEN avl_subtree_min(t, t.right[node])
    ELSE avl_next_loop(t, node, 0)

\* ------------------------------------------------------- avl_test.c code
\* the search loop of avl_insert_key: the slot (parent, side) the walk ends at
RECURSIVE avl_insert_key_loop(_, _, _, _, _, _)
avl_insert_key_loop(t, k, keys, link, parent, i) ==
    LET cur == IF link.at = NULL THEN t.root
               ELSE IF link.left THEN t.left[link.at] ELSE t.right[link.at]
    IN  IF cur = NULL THEN [parent |-> parent, left |-> link.left, done |-> TRUE]
        ELSE IF i >= LoopCap THEN [parent |-> parent, left |-> link.left, done |-> FALSE]
        ELSE avl_insert_key_loop(t, k, keys,
                 [at |-> cur, left |-> (k < keys[cur])], cur, i + 1)

\* avl_insert_key: search, avl_link_node, avl_insert_color
avl_insert_key_slot(t, keys, tn) ==
    avl_insert_key_loop(t, keys[tn], keys, [at |-> NULL, left |-> FALSE], NULL, 0)

avl_insert_key(t, keys, tn) ==
    LET slot == avl_insert_key_slot(t, keys, tn)
        t1   == avl_link_node(t, tn, slot.parent, slot.left)
    IN  avl_insert_color(t1, tn)

\* the search loop of the delete loop of main(): the record with key k, or NULL
RECURSIVE main_search_loop(_, _, _, _, _)
main_search_loop(t, keys, k, n, i) ==
    IF n = NULL THEN [node |-> NULL, done |-> TRUE]
    ELSE IF i >= LoopCap THEN [node |-> NULL, done |-> FALSE]
    ELSE IF k = keys[n] THEN [node |-> n, done |-> TRUE]
    ELSE IF k < keys[n] THEN main_search_loop(t, keys, k, t.left[n], i + 1)
    ELSE main_search_loop(t, keys, k, t.right[n], i + 1)

main_search(t, keys, k) == main_search_loop(t, keys, k, t.root, 0)

\* the for loop of print_inorder: the records visited, in order; done is
\* FALSE when the loop has not ended after LoopCap records
RECURSIVE print_inorder_loop(_, _, _)
print_inorder_loop(t, r, out) ==
    IF ~r.done THEN [seq |-> out, done |-> FALSE]
    ELSE IF r.node = NULL THEN [seq |-> out, done |-> TRUE]
    ELSE IF Len(out) >= LoopCap THEN [seq |-> out, done |-> FALSE]
    ELSE print_inorder_loop(t, avl_next(t, r.node), Append(out, r.node))

print_inorder(t) == print_inorder_loop(t, avl_first(t), <<>>)

\* ------------------------------------------------------------ structure
\* the records reachable from the Root through left/right links
RECURSIVE ReachFrom(_, _, _)
ReachFrom(t, frontier, seen) ==
    IF frontier = {} THEN seen
    ELSE LET new == ({t.left[n] : n \in frontier} \cup {t.right[n] : n \in frontier})
                    \ (seen \cup {NULL})
         IN  ReachFrom(t, new, seen \cup new)

Reach(t) == IF t.root = NULL THEN {} ELSE ReachFrom(t, {t.root}, {t.root})

ChildCount(t, n) ==
    (IF t.left[n] # NULL THEN 1 ELSE 0) + (IF t.right[n] # NULL THEN 1 ELSE 0)

\* ------------------------------------------------------------- the state
NoCall == [op |-> "none", node |-> NULL, nchild |-> 0, wasRoot |-> FALSE,
           succ |-> NULL, found |-> FALSE]
NoWalk == [steps |-> 0, done |-> TRUE]
NoDrain == [active |-> FALSE, n |-> NULL, out |-> <<>>]

IdKeys == [n \in Pool |-> n]
ArrayKeys(a) == [n \in Pool |-> IF n <= Len(a) THEN a[n] ELSE 0]

\* after `struct avl_root tree = { .avl_node = NULL }'; the fields of a record
\* are first read after avl_init_node has written them
InitTree ==
    /\ root = NULL
    /\ avl_parent = [n \in Pool |-> NULL]
    /\ avl_left = [n \in Pool |-> NULL]
    /\ avl_right = [n \in Pool |-> NULL]
    /\ avl_height = [n \in Pool |-> 0]
    /\ linked = {}
    /\ erased = {}
    /\ deleted = <<>>
    /\ last = NoCall
    /\ walk = NoWalk
    /\ drain = NoDrain

Init == InitTree /\ key = IdKeys

SetTree(t) ==
    /\ root' = t.root
    /\ avl_parent' = t.parent
    /\ avl_left' = t.left
    /\ avl_right' = t.right
    /\ avl_height' = t.height

\* avl_insert_key(&tree, nodes[n]) for a record not linked before
InsertKey(n) ==
    /\ n \notin linked
    /\ avl_insert_key_slot(T, key, n).done
    /\ LET r == avl_insert_key(T, key, n)
       IN  /\ SetTree(r.tree)
           /\ walk' = [steps |-> r.steps, done |-> r.done]
    /\ linked' = linked \cup {n}
    /\ last' = [op |-> "insert", node |-> n, nchild |-> 0,
                wasRoot |-> (root = NULL), succ |-> NULL, found |-> TRUE]
    /\ UNCHANGED <<key, erased, deleted>>

\* avl_erase(n, &tree) for a record that is in the tree and was not erased before
EraseNode(n) ==
    /\ n \in Reach(T) \ erased
    /\ avl_subtree_min(T, avl_right[n]).done
    /\ LET r == avl_erase(T, n)
       IN  /\ SetTree(r.tree)
           /\ walk' = [steps |-> r.steps, done |-> r.done]
    /\ erased' = erased \cup {n}
    /\ last' = [op |-> "erase", node |-> n, nchild |-> ChildCount(T, n),
                wasRoot |-> (root = n),
                succ |-> IF ChildCount(T, n) = 2
                         THEN avl_subtree_min(T, avl_right[n]).node ELSE NULL,
                found |-> TRUE]
    /\ UNCHANGED <<key, linked, deleted>>

\* the general caller: links records 1..MaxNodes in any order and erases
\* records of the tree, at most MaxErase of them
Insert(n) == n <= MaxNodes /\ InsertKey(n) /\ UNCHANGED drain
Erase(n) == Cardinality(erased) < MaxErase /\ EraseNode(n) /\ UNCHANGED drain

Next == (\E n \in Pool : Insert(n)) \/ (\E n \in Pool : Erase(n))

Spec == Init /\ [][Next]_vars

\* the same caller within the smaller bounds
InsertSmall(n) == n <= SmallNodes /\ InsertKey(n) /\ UNCHANGED drain
EraseSmall(n) == Cardinality(erased) < SmallErase /\ EraseNode(n) /\ UNCHANGED drain

NextSmall == (\E n \in Pool : InsertSmall(n)) \/ (\E n \in Pool : EraseSmall(n))

SpecSmall == Init /\ [][NextSmall]_vars

\* the same caller with seven records and two erases
InsertMid(n) == n <= MidNodes /\ InsertKey(n) /\ UNCHANGED drain
EraseMid(n) == Cardinality(erased) < MidErase /\ EraseNode(n) /\ UNCHANGED drain

NextMid == (\E n \in Pool : InsertMid(n)) \/ (\E n \in Pool : EraseMid(n))

SpecMid == Init /\ [][NextMid]_vars

\* a caller that only inserts; the keys are distinct, or equal in pairs
DupKeys == [n \in Pool |-> (n + 1) \div 2]

InitIns == InitTree /\ key \in {IdKeys, DupKeys}

InsertOnly(n) == n <= MaxInsOnly /\ InsertKey(n) /\ UNCHANGED drain

NextIns == \E n \in Pool : InsertOnly(n)

SpecIns == InitIns /\ [][NextIns]_vars

\* ------------------------------------------------------ main() of the test
\* what a read of the key of a freed record may give: the old key, or
\* something that compares below or above every key
JunkKeys == {-1, 1000}

InitTest == InitTree /\ key = ArrayKeys(TestKeys)

\* one iteration of the insert loop: nodes[i]->key = keys[i]; avl_insert_key
TestInsert ==
    /\ Cardinality(linked) < NKeys
    /\ linked = 1..Cardinality(linked)
    /\ InsertKey(Cardinality(linked) + 1)
    /\ UNCHANGED drain

\* one iteration of the delete loop for to_delete[i] = k: search from the
\* root, avl_erase and free when found.  A record that was freed while the
\* tree still refers to it is read by later walks; its key then is any of
\* the old key and JunkKeys.
TestDelete(k) ==
    /\ linked = 1..NKeys
    /\ Len(deleted) < MaxDelete
    /\ main_search(T, key, k).done
    /\ LET n == main_search(T, key, k).node
       IN  IF n = NULL
           THEN /\ UNCHANGED <<root, avl_parent, avl_left, avl_right, avl_height,
                               key, erased>>
                /\ walk' = NoWalk
                /\ last' = [NoCall EXCEPT !.op = "delete"]
           ELSE /\ avl_subtree_min(T, avl_right[n]).done
                /\ LET r == avl_erase(T, n)
                   IN  /\ SetTree(r.tree)
                       /\ walk' = [steps |-> r.steps, done |-> r.done]
                       /\ \E v \in (IF n \in Reach(r.tree) THEN {key[n]} \cup JunkKeys
                                    ELSE {key[n]}) :
                              key' = [key EXCEPT ![n] = v]
                /\ erased' = erased \cup {n}
                /\ last' = [op |-> "delete", node |-> n, nchild |-> ChildCount(T, n),
                            wasRoot |-> (root = n),
                            succ |-> IF ChildCount(T, n) = 2
                                     THEN avl_subtree_min(T, avl_right[n]).node ELSE NULL,
                            found |-> TRUE]
    /\ deleted' = Append(deleted, k)
    /\ UNCHANGED <<linked, drain>>

NextTest == TestInsert \/ (\E i \in 1..NKeys : TestDelete(TestKeys[i]))

SpecTest == InitTest /\ [][NextTest]_vars

\* --------------------------------------------- the cleanup loop of main()
\* a caller that inserts and then runs the cleanup loop:
\*   n = avl_first(&tree); while (n) { next = avl_next(n); avl_erase(n); n = next; }
InsertDrain(n) ==
    /\ ~drain.active
    /\ n <= MaxDrain
    /\ InsertKey(n)
    /\ UNCHANGED drain

\* struct avl_node *n = avl_first(&tree)
DrainStart ==
    /\ ~drain.active
    /\ linked # {}
    /\ avl_first(T).done
    /\ drain' = [active |-> TRUE, n |-> avl_first(T).node, out |-> <<>>]
    /\ UNCHANGED <<root, avl_parent, avl_left, avl_right, avl_height, key,
                   linked, erased, deleted, last, walk>>

\* one iteration of the while loop: next is captured before avl_erase(n)
DrainStep ==
    /\ drain.active
    /\ drain.n # NULL
    /\ avl_next(T, drain.n).done
    /\ EraseNode(drain.n)
    /\ drain' = [active |-> TRUE, n |-> avl_next(T, drain.n).node,
                 out |-> Append(drain.out, drain.n)]

NextDrain == (\E n \in Pool : InsertDrain(n)) \/ DrainStart \/ DrainStep

SpecDrain == InitIns /\ [][NextDrain]_vars

\* a caller that inserts keys in increasing order: every new key is greater
\* than every key inserted before (1,2,3,4,5 is one of its runs)
InsertAsc(n) ==
    /\ n <= MaxAsc
    /\ \A m \in linked : m < n
    /\ InsertKey(n)
    /\ UNCHANGED drain

NextAsc == \E n \in Pool : InsertAsc(n)

SpecAsc == Init /\ [][NextAsc]_vars

\* ------------------------------------------------------------ predicates
Abs(x) == IF x < 0 THEN -x ELSE x

\* the records print_inorder visits, and their keys
InOrder == print_inorder(T)
KeysOf(seq) == [i \in 1..Len(seq) |-> key[seq[i]]]

Balanced(t) ==
    \A n \in Reach(t) :
        Abs(avl_height_of(t, t.left[n]) - avl_height_of(t, t.right[n])) <= 1

HeightsCorrect(t) ==
    \A n \in Reach(t) :
        t.height[n] = 1 + MaxOf(avl_height_of(t, t.left[n]), avl_height_of(t, t.right[n]))

BackPointers(t) ==
    \A n \in Reach(t) :
        /\ t.left[n] # NULL => t.parent[t.left[n]] = n
        /\ t.right[n] # NULL => t.parent[t.right[n]] = n

NonDecreasing(ks) == \A i \in 1..(Len(ks) - 1) : ks[i] <= ks[i + 1]

\* the records below n on one side, and BST ordering by the comparison of
\* avl_insert_key (smaller keys left, equal or greater keys right)
Below(t, n) == IF n = NULL THEN {} ELSE ReachFrom(t, {n}, {n})

Ordered(t) ==
    \A n \in Reach(t) :
        /\ \A m \in Below(t, t.left[n]) : key[m] < key[n]
        /\ \A m \in Below(t, t.right[n]) : key[m] >= key[n]

\* ---------------------------------------------------------------- claims

\* C1: after every completed insert-link and erase, every record reachable
\* from the Root has |height(left) - height(right)| <= 1 (absent child: 0).
C1_Balance == walk.done => Balanced(T)

\* C2: after every completed insert-link and erase, the stored avl_height of
\* every reachable record is 1 + max(height(left), height(right)).
C2_Heights == walk.done => HeightsCorrect(T)

\* C3: a full traversal (avl_first, then avl_next until NULL) ends and visits
\* as many records as insert-links completed minus erases completed.
C3_TraversalCount ==
    /\ InOrder.done
    /\ Len(InOrder.seq) = Cardinality(linked) - Cardinality(erased)

\* C4: after avl_erase(node) has returned, node is not reachable from the
\* Root through left/right links.
C4_ErasedUnreachable == last.op = "erase" => last.node \notin Reach(T)

\* C5: the test's inserts followed by its deletes of 20, 70, 25 leave a
\* tree whose in-order traversal is 10,30,35,50,60,80 and which is balanced.
C5_ScenarioB ==
    (linked = 1..NKeys /\ deleted = <<20, 70, 25>>) =>
        /\ InOrder.done
        /\ KeysOf(InOrder.seq) = <<10, 30, 35, 50, 60, 80>>
        /\ Balanced(T)

\* C6: avl_erase of the root record, when it has two children, leaves the
\* key of its in-order successor at the Root, keeps every other key in the
\* tree, and leaves the tree BST-ordered and balanced.
C6_EraseRootTwoChildren ==
    [][\A n \in Pool :
          (EraseNode(n) /\ root = n /\ ChildCount(T, n) = 2) =>
             /\ root' # NULL
             /\ key'[root'] = key[avl_subtree_min(T, avl_right[n]).node]
             /\ {key'[m] : m \in Reach(T')} = {key[m] : m \in Reach(T) \ {n}}
             /\ Ordered(T')
             /\ Balanced(T')]_vars

\* C7: round trip: once every linked record has been erased the tree is
\* empty (Root NULL, avl_first NULL), and after every erase no record of the
\* tree has a left, right or parent link to an erased record.
C7_RoundTrip ==
    last.op = "erase" =>
        /\ (erased = linked => root = NULL /\ avl_first(T).node = NULL)
        /\ \A n \in Reach(T) :
               /\ avl_left[n] \notin erased
               /\ avl_right[n] \notin erased
               /\ avl_parent[n] \notin erased

\* C8: back-pointer integrity after every completed insert-link and erase:
\* a reachable record's left (right) child has that record as its parent.
C8_BackPointers == walk.done => BackPointers(T)

\* C9: after any sequence of insertions the in-order traversal ends, visits
\* exactly the linked records, each once, and yields non-decreasing keys.
C9_InsertOrdered ==
    /\ InOrder.done
    /\ Len(InOrder.seq) = Cardinality(linked)
    /\ {InOrder.seq[i] : i \in 1..Len(InOrder.seq)} = linked
    /\ NonDecreasing(KeysOf(InOrder.seq))

\* a tree of at least five records, built with a rotation, with equal keys in it
C9_Witness ==
    /\ Cardinality(linked) >= 5
    /\ key = DupKeys
    /\ avl_height[root] = 3
    /\ root # 1

C11_DrainLoop ==
    drain.active =>
        /\ walk.done
        /\ NonDecreasing(KeysOf(drain.out))
        /\ Cardinality({drain.out[i] : i \in 1..Len(drain.out)}) = Len(drain.out)
        /\ Reach(T) = linked \ {drain.out[i] : i \in 1..Len(drain.out)}
        /\ avl_first(T).done /\ drain.n = avl_first(T).node
        /\ drain.n # NULL => drain.n \in Reach(T)
        /\ drain.n = NULL =>
               /\ root = NULL
               /\ {drain.out[i] : i \in 1..Len(drain.out)} = linked

\* the loop has ended after it erased at least five records, one of them
\* with a right child
C11_Witness ==
    /\ drain.active
    /\ drain.n = NULL
    /\ Len(drain.out) >= 5
    /\ \E i \in 1..Len(drain.out) : avl_right[drain.out[i]] # NULL

\* C12: the test's inserts of 50,20,70,10,30,60,80,25,35 give a tree whose
\* in-order traversal yields 10,20,25,30,35,50,60,70,80.
C12_ScenarioA ==
    (linked = 1..NKeys /\ deleted = <<>>) =>
        /\ InOrder.done
        /\ KeysOf(InOrder.seq) = <<10, 20, 25, 30, 35, 50, 60, 70, 80>>

\* the nine inserts of the test are done and no delete has run
C12_Witness == linked = 1..NKeys /\ deleted = <<>> /\ last.op = "insert" /\ last.node = NKeys

\* C13: after inserting 1,2,3,4,5 in increasing order the root has stored
\* height at most 3, and it is not the first record any more (a rotation
\* replaced it).
C13_ScenarioC ==
    linked = 1..5 =>
        /\ avl_height[root] <= 3
        /\ root # 1

\* the keys 1..5 are in the tree, 5 linked last
C13_Witness == linked = 1..5 /\ last.op = "insert" /\ last.node = 5 /\ key = IdKeys

\* C14: avl_erase of a record with two children splices the in-order
\* successor S out of its own place: the slot of S's former parent that held
\* S gets S's former right child, that child's parent becomes S's former
\* parent, no slot of the erased record's parent is written, and the
\* rebalance walk starts at S's former parent.
C14_SuccessorSplice ==
    [][\A n \in Pool :
          (EraseNode(n) /\ ChildCount(T, n) = 2) =>
             LET s  == avl_subtree_min(T, avl_right[n]).node
                 sp == avl_parent[s]
                 c  == avl_right[s]
                 p  == avl_parent[n]
                 t2 == avl_erase_splice(T, n)
             IN  /\ IF avl_left[sp] = s THEN t2.left[sp] = c ELSE t2.right[sp] = c
                 /\ c # NULL => t2.parent[c] = sp
                 /\ p # NULL => t2.left[p] = avl_left[p] /\ t2.right[p] = avl_right[p]
                 /\ avl_erase_start(T, n) = sp]_vars

\* C15: avl_erase of a record with at most one child, before the rebalance
\* walk: the slot that held it (a slot of its parent, or the Root) holds its
\* sole child or is empty, the child's parent is the former parent, no
\* other link, height or the Root changed, and the walk starts at the
\* former parent.
C15_SpliceFrame ==
    [][\A n \in Pool :
          (EraseNode(n) /\ ChildCount(T, n) <= 1) =>
             LET p  == avl_parent[n]
                 c  == IF avl_left[n] # NULL THEN avl_left[n] ELSE avl_right[n]
                 t2 == avl_erase_splice(T, n)
             IN  /\ IF p = NULL THEN root = n ELSE (avl_left[p] = n \/ avl_right[p] = n)
                 /\ t2.root = (IF p = NULL THEN c ELSE root)
                 /\ \A m \in Pool :
                      /\ t2.left[m] = (IF m = p /\ avl_left[p] = n THEN c ELSE avl_left[m])
                      /\ t2.right[m] = (IF m = p /\ avl_right[p] = n THEN c ELSE avl_right[m])
                      /\ t2.parent[m] = (IF m = c THEN p ELSE avl_parent[m])
                      /\ t2.height[m] = avl_height[m]
                 /\ avl_erase_start(T, n) = p]_vars

\* C16: the rebalance walk repairs every ancestor: from a tree that is
\* balanced with correct stored heights, an insert-link, or an erase of a
\* record with at most one child, followed by the walk from the changed
\* record's parent, gives a tree that is balanced with correct stored heights.
C16_WalkRepairs ==
    [][\A t \in {T} : \A t2 \in {T'} :
         ( /\ Balanced(t) /\ HeightsCorrect(t)
           /\ \/ last'.op = "insert"
              \/ last'.op = "erase" /\ last'.nchild <= 1 ) =>
              /\ walk'.done
              /\ Balanced(t2)
              /\ HeightsCorrect(t2)]_vars

\* the rotation calls of one iteration of the while loop of avl_rebalance, in
\* call order: the function, its argument and the tree it is called on
avl_rebalance_body_calls(t, n) ==
    LET t1 == avl_update_height(t, n)
        balance == Int8(avl_height_of(t1, t1.left[n]) - avl_height_of(t1, t1.right[n]))
    IN  IF balance > 1 THEN
            LET l  == t1.left[n]
                dbl == avl_height_of(t1, t1.left[l]) < avl_height_of(t1, t1.right[l])
                ta == IF dbl THEN avl_rotate_left(t1, l) ELSE t1
            IN  (IF dbl THEN <<[fn |-> "avl_rotate_left", node |-> l, tree |-> t1]>> ELSE <<>>)
                \o <<[fn |-> "avl_rotate_right", node |-> n, tree |-> ta]>>
        ELSE IF balance < -1 THEN
            LET r  == t1.right[n]
                dbl == avl_height_of(t1, t1.right[r]) < avl_height_of(t1, t1.left[r])
                ta == IF dbl THEN avl_rotate_right(t1, r) ELSE t1
            IN  (IF dbl THEN <<[fn |-> "avl_rotate_right", node |-> r, tree |-> t1]>> ELSE <<>>)
                \o <<[fn |-> "avl_rotate_left", node |-> n, tree |-> ta]>>
        ELSE <<>>

\* the rotation calls of a whole rebalance walk
RECURSIVE avl_rebalance_calls(_, _, _)
avl_rebalance_calls(t, n, i) ==
    IF n = NULL \/ i >= LoopCap THEN <<>>
    ELSE LET t2 == avl_rebalance_body(t, n)
         IN  avl_rebalance_body_calls(t, n) \o avl_rebalance_calls(t2, t2.parent[n], i + 1)

\* the rotation calls of an insert-link of record tn, and of an erase of it
avl_insert_key_calls(t, keys, tn) ==
    LET slot == avl_insert_key_slot(t, keys, tn)
        t1   == avl_link_node(t, tn, slot.parent, slot.left)
    IN  avl_rebalance_calls(t1, t1.parent[tn], 0)

avl_erase_calls(t, node) ==
    avl_rebalance_calls(avl_erase_splice(t, node), avl_erase_start(t, node), 0)

\* the rotation calls of a step from tree t that changed `linked' (ins) or
\* `erased' (er) and whose argument was record n
StepCalls(t, ins, er, n) ==
    IF ins THEN avl_insert_key_calls(t, key, n)
    ELSE IF er THEN avl_erase_calls(t, n)
    ELSE <<>>

\* the records of the subtree of n in order (left subtree, n, right subtree),
\* down to depth d
RECURSIVE InOrderOf(_, _, _)
InOrderOf(t, n, d) ==
    IF n = NULL \/ d = 0 THEN <<>>
    ELSE InOrderOf(t, t.left[n], d - 1) \o <<n>> \o InOrderOf(t, t.right[n], d - 1)

Flat(t) == InOrderOf(t, t.root, PoolSize + 1)

\* a rotation at record a that promotes its child b, from tree t to tree t2
RotationOK(t, a, b, t2) ==
    LET p == t.parent[a]
    IN  /\ b # NULL
        /\ Flat(t2) = Flat(t)
        /\ IF p = NULL
           THEN t.root = a /\ t2.root = b
           ELSE /\ t2.root = t.root
                /\ \/ t.left[p] = a /\ t2.left[p] = b /\ t2.right[p] = t.right[p]
                   \/ t.right[p] = a /\ t2.right[p] = b /\ t2.left[p] = t.left[p]
        /\ t2.parent[b] = p
        /\ \A m \in Pool \ {a, b} : t2.height[m] = t.height[m]

CallOK(c) ==
    IF c.fn = "avl_rotate_right"
    THEN RotationOK(c.tree, c.node, c.tree.left[c.node], avl_rotate_right(c.tree, c.node))
    ELSE RotationOK(c.tree, c.node, c.tree.right[c.node], avl_rotate_left(c.tree, c.node))

\* C17: every call of avl_rotate_right(root, y) and avl_rotate_left(root, x)
\* made by a rebalance walk has a non-null child to promote, leaves the
\* in-order sequence of the records of the tree unchanged, puts the promoted
\* child into the slot of the old parent (or the Root) that held the rotated
\* record, and changes the stored height of no record other than the two.
C17_Rotations ==
    [][\A t \in {T} :
       \A calls \in {StepCalls(t, linked' # linked, erased' # erased, last'.node)} :
       \A i \in DOMAIN calls :
       \A c \in {calls[i]} : CallOK(c)]_vars

\* C18: on a tree with BST ordering and back-pointer integrity, avl_first
\* returns the first record in order, which has the smallest key (NULL for
\* the empty tree), and avl_next of every record returns the record that
\* follows it in order, whose key is the smallest at or after its position
\* (NULL for the last record).
C18_FirstNext ==
    (Ordered(T) /\ BackPointers(T)) =>
        LET seq == Flat(T)
        IN  /\ avl_first(T).done
            /\ avl_first(T).node = (IF seq = <<>> THEN NULL ELSE seq[1])
            /\ \A m \in Reach(T) : key[avl_first(T).node] <= key[m]
            /\ \A i \in 1..Len(seq) :
                   /\ avl_next(T, seq[i]).done
                   /\ avl_next(T, seq[i]).node = (IF i < Len(seq) THEN seq[i + 1] ELSE NULL)
                   /\ \A j \in (i + 1)..Len(seq) : key[seq[i + 1]] <= key[seq[j]]

\* after an erase, an ordered tree with back-pointer integrity in which some
\* record's successor is found by a descent of two links and some other
\* record's successor by an ascent of two links
C18_Witness ==
    /\ last.op = "erase"
    /\ Ordered(T) /\ BackPointers(T)
    /\ \E n \in Reach(T) :
           /\ avl_right[n] # NULL
           /\ avl_left[avl_right[n]] # NULL
    /\ \E n \in Reach(T) :
           /\ avl_right[n] = NULL
           /\ avl_parent[n] # NULL
           /\ avl_next(T, n).node \notin {NULL, avl_parent[n]}

\* the slots (record, side) of reachable records that hold n
SlotsOf(t, n) ==
    {<<m, "left">> : m \in {r \in Reach(t) : t.left[r] = n}}
        \cup {<<m, "right">> : m \in {r \in Reach(t) : t.right[r] = n}}

\* C19: the links reachable from the Root form a tree: every reachable
\* record is held by at most one left or right slot (so it is not the child
\* of two records, nor the left and the right child of one), and no record
\* is below itself.
C19_TreeShape ==
    \A n \in Reach(T) :
        /\ Cardinality(SlotsOf(T, n)) <= 1
        /\ n \notin Below(T, avl_left[n]) \cup Below(T, avl_right[n])

\* C20: when the tree is not empty, the record the Root refers to has a
\* NULL avl_parent, and no other reachable record has a NULL avl_parent.
C20_RootParent ==
    root # NULL =>
        /\ avl_parent[root] = NULL
        /\ \A n \in Reach(T) : avl_parent[n] = NULL => n = root

\* after an erase of a record with two children that was not the root: the
\* erased record is still linked into a tree of at least four records
C20_Witness ==
    /\ last.op = "erase"
    /\ last.nchild = 2
    /\ ~last.wasRoot
    /\ last.node \in Reach(T)
    /\ Cardinality(Reach(T)) >= 4

====
